---- MODULE Spec2Model ----
(***************************************************************************)
(* Model of the change-highlighting engine of src/src/App.jsx:             *)
(*   createHighlightedHTML (stripHTML, splitIntoBlocks, isSpecialElement)  *)
(*   and the wrapper-removing replace of handleAfterViewInput,             *)
(* and of its host, the component ContentOps: the validation of the        *)
(* response in analyzeBlog, the highlight and sync effects, the editors,   *)
(* the setup, the three backend requests and the navigation.               *)
(*                                                                         *)
(* An HTML string is a sequence of tokens.  A token is an opening tag      *)
(* (name and attribute list), a closing tag, or a run of n copies of one   *)
(* text character.  Two token sequences denote the same string exactly     *)
(* when they are equal after adjacent runs of the same character are       *)
(* merged (Cat keeps every string in that canonical form).  The name of a  *)
(* character reference with its semicolon ("amp;", "lt;", "gt;") is one    *)
(* text character of several code units: "&" followed by "lt;" is the      *)
(* string &lt;.  A "<" text character is always followed by a character    *)
(* that cannot begin a tag name.                                           *)
(***************************************************************************)
EXTENDS Integers, Sequences, FiniteSets, TLC

(***************************************************************************)
(* Tokens                                                                  *)
(***************************************************************************)
Text(c, n) == [k |-> "text", c |-> c, n |-> n]
Open(tag, attrs) == [k |-> "open", tag |-> tag, attrs |-> attrs]
Close(tag) == [k |-> "close", tag |-> tag]
Attr(name, val) == [name |-> name, val |-> val]

\* the characters matched by \s in the model's alphabet
Whitespace == {" ", "\n"}

\* string concatenation: the last run of a and the first run of b fuse
\* when they repeat the same character
Cat(a, b) ==
  IF a = <<>> THEN b
  ELSE IF b = <<>> THEN a
  ELSE LET x == a[Len(a)]
           y == b[1]
       IN IF x.k = "text" /\ y.k = "text" /\ x.c = y.c
          THEN SubSeq(a, 1, Len(a) - 1) \o <<Text(x.c, x.n + y.n)>> \o Tail(b)
          ELSE a \o b

RECURSIVE Flatten(_)
Flatten(ss) == IF ss = <<>> THEN <<>> ELSE Cat(ss[1], Flatten(Tail(ss)))

\* code units of one text character
AtomLen(c) ==
  CASE c = "amp;" -> 4
    [] c \in {"lt;", "gt;"} -> 3
    [] OTHER -> 1

\* String.length of a string without tags
RECURSIVE StrLen(_)
StrLen(s) == IF s = <<>> THEN 0 ELSE s[1].n * AtomLen(s[1].c) + StrLen(Tail(s))

(***************************************************************************)
(* stripHTML: html.replace(/<[^>]*>/g, '').replace(/\s+/g, ' ').trim()     *)
(***************************************************************************)
\* position of the first token after position 1 that holds a ">" (a tag or a
\* ">" text character), or 0
FirstGreaterThan(html) ==
  LET J == {j \in 2..Len(html) : html[j].k # "text" \/ html[j].c = ">"}
  IN IF J = {} THEN 0 ELSE CHOOSE j \in J : \A m \in J : j <= m

\* .replace(/<[^>]*>/g, ''): every tag is deleted, the text around it joins;
\* a "<" text character with a ">" somewhere after it is deleted with all up
\* to the first ">"
RECURSIVE RemoveTags(_)
RemoveTags(html) ==
  IF html = <<>> THEN <<>>
  ELSE IF html[1].k # "text" THEN RemoveTags(Tail(html))
  ELSE IF html[1].c = "<" /\ FirstGreaterThan(html) > 0
  THEN LET j == FirstGreaterThan(html)
           after == SubSeq(html, j + 1, Len(html))
       IN IF html[j].k = "text" /\ html[j].n > 1
          THEN RemoveTags(<<Text(">", html[j].n - 1)>> \o after)
          ELSE RemoveTags(after)
  ELSE Cat(<<html[1]>>, RemoveTags(Tail(html)))

\* .replace(/\s+/g, ' '): a maximal run of whitespace becomes one space
RECURSIVE CollapseWhitespace(_)
CollapseWhitespace(s) ==
  IF s = <<>> THEN <<>>
  ELSE IF s[1].c \in Whitespace
       THEN Cat(<<Text(" ", 1)>>,
                LET r == CollapseWhitespace(Tail(s))
                IN IF r # <<>> /\ r[1].c = " " THEN Tail(r) ELSE r)
       ELSE <<s[1]>> \o CollapseWhitespace(Tail(s))

\* .trim() of a string whose whitespace is already collapsed
Trim(s) ==
  LET a == IF s # <<>> /\ s[1].c \in Whitespace THEN Tail(s) ELSE s
  IN IF a # <<>> /\ a[Len(a)].c \in Whitespace THEN SubSeq(a, 1, Len(a) - 1) ELSE a

stripHTML(html) == Trim(CollapseWhitespace(RemoveTags(html)))

(***************************************************************************)
(* splitIntoBlocks: new DOMParser().parseFromString(`<div>${html}</div>`)  *)
(* and one block per child node of that div.  ParseNodes is the part of    *)
(* the HTML tree builder the engine's inputs exercise: a stack of open     *)
(* elements, implied end tags, void elements, stray end tags.              *)
(***************************************************************************)
VoidTags == {"img", "br", "embed"}

\* the character a named reference stands for
Referenced(name) ==
  CASE name = "amp;" -> "&"
    [] name = "lt;" -> "<"
    [] name = "gt;" -> ">"

\* the tokenizer replaces each character reference in text by its character,
\* left to right; a replaced character begins no further reference
RECURSIVE DecodeEntities(_)
DecodeEntities(html) ==
  IF html = <<>> THEN <<>>
  ELSE IF /\ Len(html) >= 2
          /\ html[1].k = "text" /\ html[1].c = "&"
          /\ html[2].k = "text" /\ html[2].c \in {"amp;", "lt;", "gt;"}
  THEN LET before == IF html[1].n > 1 THEN <<Text("&", html[1].n - 1)>> ELSE <<>>
           left == IF html[2].n > 1 THEN <<Text(html[2].c, html[2].n - 1)>> ELSE <<>>
       IN Cat(before,
              Cat(<<Text(Referenced(html[2].c), 1)>>,
                  DecodeEntities(left \o SubSeq(html, 3, Len(html)))))
  ELSE Cat(<<html[1]>>, DecodeEntities(Tail(html)))

\* the serializer escapes &, < and > of text
RECURSIVE EncodeText(_)
EncodeText(data) ==
  IF data = <<>> THEN <<>>
  ELSE LET t == data[1] IN
    IF t.k = "text" /\ t.c \in {"&", "<", ">"}
    THEN LET name == CASE t.c = "&" -> "amp;" [] t.c = "<" -> "lt;" [] t.c = ">" -> "gt;"
             left == IF t.n > 1 THEN <<Text(t.c, t.n - 1)>> ELSE <<>>
         IN <<Text("&", 1), Text(name, 1)>> \o EncodeText(left \o Tail(data))
    ELSE <<t>> \o EncodeText(Tail(data))

\* start tags after which the tree builder ignores a <frameset> (the
\* frameset-ok flag is "not ok")
FramesetNotOkTags ==
  {"pre", "listing", "li", "dd", "dt", "button", "applet", "marquee", "object", "table",
   "area", "br", "embed", "img", "keygen", "wbr", "input", "hr", "textarea", "xmp",
   "iframe", "select"}

\* the token is a character other than whitespace, or one of those start tags
ClearsFramesetOk(t) ==
  \/ t.k = "text" /\ t.c \notin Whitespace
  \/ t.k = "open" /\ t.tag \in FramesetNotOkTags

\* parseFromString(`<div>${html}</div>`, 'text/html').body.firstChild is null:
\* a <frameset> start tag met while the flag is still "ok" removes the body
\* with the <div> in it, and document.body is the empty frameset
HasNoContainer(html) ==
  \E i \in 1..Len(html) :
    /\ html[i].k = "open" /\ html[i].tag = "frameset"
    /\ \A j \in 1..(i - 1) : ~ClearsFramesetOk(html[j])

\* start tags that close an open <p>
BlockTags == {"div", "p", "table", "section", "h2", "figure", "blockquote"}

\* element names are serialized in lower case
Lower(tag) ==
  CASE tag = "P" -> "p"
    [] tag = "DIV" -> "div"
    [] OTHER -> tag

SerializeOpen(t) == Open(Lower(t.tag), t.attrs)

LastIndex(stack, tag) ==
  LET I == {i \in 1..Len(stack) : stack[i] = tag}
  IN IF I = {} THEN 0 ELSE CHOOSE i \in I : \A j \in I : j <= i

\* the end tags of stack[i..], innermost first
RECURSIVE CloseDownTo(_, _)
CloseDownTo(stack, i) ==
  IF Len(stack) < i THEN <<>>
  ELSE <<Close(stack[Len(stack)])>> \o CloseDownTo(SubSeq(stack, 1, Len(stack) - 1), i)

\* toks: input left, character references replaced; stack: open elements below
\* the root; cur: the child node under construction; nodes: the finished child
\* nodes, an element as its outerHTML, a text node as its data;
\* inContainer: the root is the <div> the caller wrote around the input, which
\* a stray </div> closes (what follows it is no child of the root)
RECURSIVE ParseNodes(_, _, _, _, _)
ParseNodes(toks, stack, cur, nodes, inContainer) ==
  IF toks = <<>>
  THEN IF cur = <<>> THEN nodes ELSE Append(nodes, cur \o CloseDownTo(stack, 1))
  ELSE
    LET t == toks[1]
        rest == Tail(toks)
    IN
    IF t.k = "text"
    THEN ParseNodes(rest, stack,
                    Cat(cur, IF stack = <<>> THEN <<t>> ELSE EncodeText(<<t>>)),
                    nodes, inContainer)
    ELSE IF t.k = "open"
    THEN
      LET tag == Lower(t.tag) IN
      IF tag = "frameset"
      THEN \* ignored: the flag is "not ok", or the root is not a body's child
        ParseNodes(rest, stack, cur, nodes, inContainer)
      ELSE IF stack # <<>> /\ stack[Len(stack)] = "p" /\ tag \in BlockTags
      THEN \* implied </p>, then the same token again
        IF Len(stack) = 1
        THEN ParseNodes(toks, <<>>, <<>>, Append(nodes, cur \o <<Close("p")>>), inContainer)
        ELSE ParseNodes(toks, SubSeq(stack, 1, Len(stack) - 1), cur \o <<Close("p")>>,
                        nodes, inContainer)
      ELSE IF stack = <<>>
      THEN
        LET flushed == IF cur = <<>> THEN nodes ELSE Append(nodes, cur) IN
        IF tag \in VoidTags
        THEN ParseNodes(rest, <<>>, <<>>, Append(flushed, <<SerializeOpen(t)>>), inContainer)
        ELSE ParseNodes(rest, <<tag>>, <<SerializeOpen(t)>>, flushed, inContainer)
      ELSE
        IF tag \in VoidTags
        THEN ParseNodes(rest, stack, cur \o <<SerializeOpen(t)>>, nodes, inContainer)
        ELSE ParseNodes(rest, Append(stack, tag), cur \o <<SerializeOpen(t)>>, nodes,
                        inContainer)
    ELSE
      LET tag == Lower(t.tag)
          i == LastIndex(stack, tag)
      IN
      IF i > 0
      THEN
        IF i = 1
        THEN ParseNodes(rest, <<>>, <<>>, Append(nodes, cur \o CloseDownTo(stack, 1)),
                        inContainer)
        ELSE ParseNodes(rest, SubSeq(stack, 1, i - 1), cur \o CloseDownTo(stack, i), nodes,
                        inContainer)
      ELSE IF tag = "div" /\ inContainer
      THEN \* the root <div> ends here
        IF cur = <<>> THEN nodes ELSE Append(nodes, cur \o CloseDownTo(stack, 1))
      ELSE IF tag = "p"
      THEN \* </p> without an open <p> makes an empty <p></p>
        IF stack = <<>>
        THEN ParseNodes(rest, <<>>, <<>>,
                        Append(IF cur = <<>> THEN nodes ELSE Append(nodes, cur),
                               <<Open("p", <<>>), Close("p")>>), inContainer)
        ELSE ParseNodes(rest, stack, cur \o <<Open("p", <<>>), Close("p")>>, nodes,
                        inContainer)
      ELSE \* any other stray end tag is ignored
        ParseNodes(rest, stack, cur, nodes, inContainer)

IsTextNode(node) == node[1].k = "text"

\* node.textContent.trim() is not the empty string
HasNonWhitespace(node) == \E i \in 1..Len(node) : node[i].c \notin Whitespace

\* lines 85-91 without the test of line 88: every text node is a block
splitIntoBlocksEveryText(html) == ParseNodes(DecodeEntities(html), <<>>, <<>>, <<>>, TRUE)

\* a block is node.outerHTML of an element and node.textContent of a text node
splitIntoBlocks(html) ==
  SelectSeq(ParseNodes(DecodeEntities(html), <<>>, <<>>, <<>>, TRUE),
            LAMBDA node : ~IsTextNode(node) \/ HasNonWhitespace(node))

\* element.innerHTML = html followed by reading element.innerHTML: the
\* serialization of the children, the text children escaped
InnerHTML(html) ==
  LET nodes == ParseNodes(DecodeEntities(html), <<>>, <<>>, <<>>, FALSE)
  IN Flatten([i \in 1..Len(nodes) |->
                IF IsTextNode(nodes[i]) THEN EncodeText(nodes[i]) ELSE nodes[i]])

(***************************************************************************)
(* isSpecialElement (App.jsx 118-123)                                      *)
(***************************************************************************)
\* a class value is a sequence of fragments; no needle below straddles two
\* fragments except as written here
ContainsWidget(val) == \E i \in 1..Len(val) : val[i] = "widget"
ContainsWEmbed(val) == \E i \in 1..(Len(val) - 1) : val[i] = "w-" /\ val[i + 1] = "embed"
ContainsInfoWidget(val) ==
  \E i \in 1..(Len(val) - 1) : val[i] = "info-" /\ val[i + 1] = "widget"

\* /<(table|iframe|embed|script|img|figure)/i
SpecialTags == {"table", "iframe", "embed", "script", "img", "figure"}

\* the values of the class="..." attributes in the block
ClassValues(block) ==
  UNION {{block[i].attrs[j].val :
            j \in {j \in 1..Len(block[i].attrs) : block[i].attrs[j].name = "class"}} :
         i \in {i \in 1..Len(block) : block[i].k = "open"}}

\* lines 118-123 without the last pattern
isSpecialElementFourPatterns(updatedBlock) ==
  \/ \E i \in 1..Len(updatedBlock) :
       updatedBlock[i].k = "open" /\ Lower(updatedBlock[i].tag) \in SpecialTags
  \/ \E val \in ClassValues(updatedBlock) : ContainsWidget(val)
  \/ \E val \in ClassValues(updatedBlock) : ContainsWEmbed(val)
  \/ \E val \in ClassValues(updatedBlock) : ContainsInfoWidget(val)

isSpecialElement(updatedBlock) ==
  \/ \E i \in 1..Len(updatedBlock) :
       updatedBlock[i].k = "open" /\ Lower(updatedBlock[i].tag) \in SpecialTags
  \/ \E val \in ClassValues(updatedBlock) : ContainsWidget(val)
  \/ \E val \in ClassValues(updatedBlock) : ContainsWEmbed(val)
  \/ \E val \in ClassValues(updatedBlock) : ContainsInfoWidget(val)
  \/ \E i \in 1..Len(updatedBlock) :
       /\ updatedBlock[i].k = "open"
       /\ \E j \in 1..Len(updatedBlock[i].attrs) : updatedBlock[i].attrs[j].name = "data-w-id"

(***************************************************************************)
(* The highlight wrapper (App.jsx 131) and its removal (App.jsx 382)       *)
(***************************************************************************)
\* the style value, split where the stripper's pattern stops being literal
HighlightStylePrefix == "background-color: #e0f2fe;"
HighlightStyleRest == " padding: 8px; margin: 8px 0; border-left: 3px solid #0ea5e9; border-radius: 4px;"

WrapperOpen == Open("div", <<Attr("style", <<HighlightStylePrefix, HighlightStyleRest>>)>>)

\* the wrapper put inside the block's own tag, around its content only
HighlightedInside(updatedBlock) ==
  IF updatedBlock[1].k = "open" /\ Len(updatedBlock) >= 2
  THEN <<updatedBlock[1], WrapperOpen>> \o SubSeq(updatedBlock, 2, Len(updatedBlock) - 1)
         \o <<Close("div"), updatedBlock[Len(updatedBlock)]>>
  ELSE <<WrapperOpen>> \o updatedBlock \o <<Close("div")>>

\* `<div style="...">${updatedBlock}</div>`
Highlighted(updatedBlock) == <<WrapperOpen>> \o updatedBlock \o <<Close("div")>>

\* <div style="background-color: #e0f2fe;[^"]*"> : a div whose only attribute
\* is a style beginning with the tint
MatchesWrapperOpen(t) ==
  /\ t.k = "open"
  /\ t.tag = "div"
  /\ Len(t.attrs) = 1
  /\ t.attrs[1].name = "style"
  /\ Len(t.attrs[1].val) >= 1
  /\ t.attrs[1].val[1] = HighlightStylePrefix

IsCloseDiv(t) == t.k = "close" /\ t.tag = "div"

\* position of the first </div> after position 1, or 0: where (.*?)<\/div> ends
FirstCloseDiv(html) ==
  LET J == {j \in 2..Len(html) : IsCloseDiv(html[j])}
  IN IF J = {} THEN 0 ELSE CHOOSE j \in J : \A m \in J : j <= m

\* rawHTML.replace(/<div style="background-color: #e0f2fe;[^"]*">(.*?)<\/div>/gs, '$1')
\* scans left to right; a match is replaced by its group and the scan goes on
\* after the match
RECURSIVE RemoveHighlightDivs(_)
RemoveHighlightDivs(rawHTML) ==
  IF rawHTML = <<>> THEN <<>>
  ELSE IF MatchesWrapperOpen(rawHTML[1]) /\ FirstCloseDiv(rawHTML) > 0
  THEN LET j == FirstCloseDiv(rawHTML)
       IN Cat(SubSeq(rawHTML, 2, j - 1),
              RemoveHighlightDivs(SubSeq(rawHTML, j + 1, Len(rawHTML))))
  ELSE Cat(<<rawHTML[1]>>, RemoveHighlightDivs(Tail(rawHTML)))

(***************************************************************************)
(* Program constants and model bounds                                      *)
(***************************************************************************)
\* cleanedUpdated.length > 20
HighlightThreshold == 20
\* cleaned.length > 5
MinKeyLength == 5

\* most top-level nodes in an original / a candidate document
MaxOriginalNodes == 1
MaxUpdatedNodes == 2
\* most tokens of an edited view handed to the stripper
MaxViewTokens == 6

(***************************************************************************)
(* Input documents: sequences of top-level nodes from a palette            *)
(***************************************************************************)
Elem(tag, attrs, inner) == <<Open(tag, attrs)>> \o inner \o <<Close(tag)>>
Class(val) == Attr("class", val)

LongA == <<Text("a", HighlightThreshold + 1)>>
LongB == <<Text("b", HighlightThreshold + 1)>>
LongC == <<Text("c", HighlightThreshold + 1)>>

ParaA == Elem("p", <<>>, LongA)
ParaB == Elem("p", <<>>, LongB)
\* the text of ParaA under other markup: tag case, an attribute, whitespace
ParaAMarkup ==
  Elem("P", <<Class(<<"hero">>)>>, <<Text("\n", 1)>> \o LongA \o <<Text(" ", 2)>>)
\* exactly at the threshold
ParaAtThreshold == Elem("p", <<>>, <<Text("a", HighlightThreshold)>>)
\* too short to be a key of originalMap
ParaShort == Elem("p", <<>>, <<Text("a", MinKeyLength)>>)
\* a div holding a div and more: the text of ParaA followed by that of ParaB
NestedDiv == Elem("div", <<>>, Elem("div", <<>>, LongA) \o LongB)
TableC ==
  Elem("table", <<>>, Elem("tbody", <<>>, Elem("tr", <<>>, Elem("td", <<>>, LongC))))
InfoWidgetC == Elem("div", <<Class(<<"info-", "widget">>)>>, LongC)
WEmbedA == Elem("div", <<Class(<<"w-", "embed", " ", "hero">>)>>, LongA)
DataWIdC == Elem("section", <<Attr("data-w-id", <<"7">>)>>, LongC)
\* the two marks isSpecialElement has no pattern for
RichTextDataWidgetC ==
  Elem("div", <<Class(<<"w-", "richtext">>), Attr("data-widget", <<"7">>)>>, LongC)
Newline == <<Text("\n", 1)>>

OriginalPalette == {ParaA, ParaB, NestedDiv, Newline}

UpdatedPalette ==
  {ParaA, ParaB, ParaShort, Newline, ParaAMarkup, ParaAtThreshold, NestedDiv, TableC,
   InfoWidgetC, WEmbedA, DataWIdC, RichTextDataWidgetC}

\* top-level text written with a doubly escaped "<": &amp;lt; aaa...
EscapedLtText ==
  <<Text("&", 1), Text("amp;", 1), Text("lt;", 1), Text(" ", 1)>> \o LongA
\* a paragraph whose text has an escaped "<": <p>&lt; bbb...</p>
ParaLtB == Elem("p", <<>>, <<Text("&", 1), Text("lt;", 1), Text(" ", 1)>> \o LongB)
\* a short paragraph inside a wrapper container of an earlier annotation
HighlightedShort == Highlighted(ParaShort)

\* candidates whose text holds character references or which hold wrapper
\* markup of their own
\* top-level text without markup
TextC == LongC

EscapedPalette == {EscapedLtText, ParaLtB, HighlightedShort, ParaA, ParaB, TextC, Newline}

\* markup the tree builder does not take as written: a <frameset> start tag,
\* an end tag for the <div> the caller wrote
FramesetTag == <<Open("frameset", <<>>)>>
StrayCloseDiv == <<Close("div")>>

MalformedPalette == {FramesetTag, StrayCloseDiv, ParaA, TextC, Newline}

NodeSeqs(palette, n) == UNION {[1..m -> palette] : m \in 0..n}

OriginalDocs == {Flatten(ns) : ns \in NodeSeqs(OriginalPalette, MaxOriginalNodes)}
UpdatedDocs == {Flatten(ns) : ns \in NodeSeqs(UpdatedPalette, MaxUpdatedNodes)}

(***************************************************************************)
(* State                                                                   *)
(***************************************************************************)
VARIABLES
  originalHTML,     \* first argument: result.originalContent
  updatedHTML,      \* second argument: editedContent at the time of the call
  originalBlocks,
  updatedBlocks,
  originalMap,      \* Map: cleaned text -> {html, index}, as a set of entries
  idx,              \* position of the running forEach
  highlightedHTML,
  changesCount,
  highlightedData,  \* the returned {html, changesCount}, or Null
  afterView,        \* afterViewRef.current.innerHTML
  editedContent,
  pc,
  postBody,         \* blog.fieldData['post-body'] of the request in flight
  response,         \* data.content of the response in flight
  result,           \* <<>> for null, else <<[content, originalContent]>>
  showHighlights,
  view,
  viewMode,
  loading,
  status,           \* status.type
  pendingEffects,   \* effects whose dependencies changed and that have not run
  selectedBlog,     \* <<>> for null, else <<[id, postBody]>>
  blogs,            \* the items of the dashboard
  config,           \* the fields of the setup form
  savedConfig,      \* <<>> for null, else <<config>>
  localStorage,     \* the item 'contentops_config': <<>> or <<config>>
  requests          \* the fetches awaiting their response, oldest first

\* the locals of a call of createHighlightedHTML
engineVars ==
  <<originalHTML, updatedHTML, originalBlocks, updatedBlocks, originalMap, idx,
    highlightedHTML, changesCount>>

\* the session: what is configured, listed, selected and in flight
appVars == <<selectedBlog, blogs, config, savedConfig, localStorage, requests>>

requestVars == <<postBody, response, appVars>>

reviewVars == <<result, showHighlights, view, viewMode, loading, status>>

hostVars == <<requestVars, reviewVars, pendingEffects>>

vars ==
  <<originalHTML, updatedHTML, originalBlocks, updatedBlocks, originalMap, idx,
    highlightedHTML, changesCount, highlightedData, afterView, editedContent, pc, hostVars>>

Null == [html |-> <<>>, changesCount |-> -1]

\* line 318: the four fields of config; a field is '' or filled in
ConfigFields == {"anthropicKey", "braveKey", "webflowKey", "collectionId"}
EmptyConfig == [f \in ConfigFields |-> ""]
FullConfig == [f \in ConfigFields |-> "k"]

\* an item of the collection: its id and fieldData['post-body']
Blog(id, body) == [id |-> id, postBody |-> body]

MapHas(map, key) == \E e \in map : e.key = key
\* the entry stored under the block's markup instead of its cleaned text
MapSetByMarkup(map, key, html, index) ==
  {e \in map : e.key # html} \cup {[key |-> html, html |-> html, index |-> index]}

\* originalMap.set(cleaned, {html, index}): a later block replaces an earlier
\* one with the same text
MapSet(map, key, html, index) ==
  {e \in map : e.key # key} \cup {[key |-> key, html |-> html, index |-> index]}

(***************************************************************************)
(* createHighlightedHTML (App.jsx 75-141), one action per step             *)
(***************************************************************************)
\* lines 98-99 with an empty original replaced by the candidate
SplitBlocksDefaulting ==
  /\ pc = "start"
  /\ IF HasNoContainer(originalHTML) \/ HasNoContainer(updatedHTML)
     THEN /\ pc' = "raised"
          /\ UNCHANGED <<originalBlocks, updatedBlocks, idx>>
     ELSE /\ originalBlocks' =
               splitIntoBlocks(IF originalHTML = <<>> THEN updatedHTML ELSE originalHTML)
          /\ updatedBlocks' = splitIntoBlocks(updatedHTML)
          /\ idx' = 1
          /\ pc' = "map"
  /\ UNCHANGED <<originalHTML, updatedHTML, originalMap, highlightedHTML, changesCount,
                 highlightedData, afterView, editedContent>>
  /\ UNCHANGED hostVars

\* lines 98-99; container.childNodes of line 86 is a TypeError when the
\* container is null, and nothing in createHighlightedHTML catches it
SplitBlocks ==
  /\ pc = "start"
  /\ IF HasNoContainer(originalHTML) \/ HasNoContainer(updatedHTML)
     THEN /\ pc' = "raised"
          /\ UNCHANGED <<originalBlocks, updatedBlocks, idx>>
     ELSE /\ originalBlocks' = splitIntoBlocks(originalHTML)
          /\ updatedBlocks' = splitIntoBlocks(updatedHTML)
          /\ idx' = 1
          /\ pc' = "map"
  /\ UNCHANGED <<originalHTML, updatedHTML, originalMap, highlightedHTML, changesCount,
                 highlightedData, afterView, editedContent>>
  /\ UNCHANGED hostVars

\* line 105 with the comparison turned round
IsKeyInverted(cleaned) == cleaned # <<>> /\ StrLen(cleaned) < MinKeyLength

\* the condition of line 105: cleaned && cleaned.length > 5
IsKey(cleaned) == cleaned # <<>> /\ StrLen(cleaned) > MinKeyLength

\* lines 103-108, one original block
MapOriginalBlock ==
  /\ pc = "map"
  /\ idx <= Len(originalBlocks)
  /\ LET block == originalBlocks[idx]
         cleaned == stripHTML(block)
     IN originalMap' = IF IsKey(cleaned)
                       THEN MapSet(originalMap, cleaned, block, idx - 1)
                       ELSE originalMap
  /\ idx' = idx + 1
  /\ UNCHANGED <<originalHTML, updatedHTML, originalBlocks, updatedBlocks, highlightedHTML,
                 changesCount, highlightedData, afterView, editedContent, pc>>
  /\ UNCHANGED hostVars

\* lines 110-111
MapDone ==
  /\ pc = "map"
  /\ idx > Len(originalBlocks)
  /\ highlightedHTML' = <<>>
  /\ changesCount' = 0
  /\ idx' = 1
  /\ pc' = "blocks"
  /\ UNCHANGED <<originalHTML, updatedHTML, originalBlocks, updatedBlocks, originalMap,
                 highlightedData, afterView, editedContent>>
  /\ UNCHANGED hostVars

\* line 129 with the threshold one higher
ShouldHighlightAboveNext(map, updatedBlock) ==
  LET cleanedUpdated == stripHTML(updatedBlock)
      match == MapHas(map, cleanedUpdated)
  IN /\ ~match
     /\ StrLen(cleanedUpdated) > HighlightThreshold + 1
     /\ ~isSpecialElement(updatedBlock)

\* line 129 with >= for >
ShouldHighlightAtThreshold(map, updatedBlock) ==
  LET cleanedUpdated == stripHTML(updatedBlock)
      match == MapHas(map, cleanedUpdated)
  IN ~match /\ StrLen(cleanedUpdated) >= HighlightThreshold /\ ~isSpecialElement(updatedBlock)

\* line 129 without its third condition
ShouldHighlightSpecial(map, updatedBlock) ==
  LET cleanedUpdated == stripHTML(updatedBlock)
      match == MapHas(map, cleanedUpdated)
  IN ~match /\ StrLen(cleanedUpdated) > HighlightThreshold

\* the condition of line 129
ShouldHighlight(map, updatedBlock) ==
  LET cleanedUpdated == stripHTML(updatedBlock)
      match == MapHas(map, cleanedUpdated)
  IN ~match /\ StrLen(cleanedUpdated) > HighlightThreshold /\ ~isSpecialElement(updatedBlock)

\* the output built back to front: each piece is put before the earlier ones
HighlightBlockPrepending ==
  /\ pc = "blocks"
  /\ idx <= Len(updatedBlocks)
  /\ LET updatedBlock == updatedBlocks[idx]
     IN IF ShouldHighlight(originalMap, updatedBlock)
        THEN /\ highlightedHTML' = Cat(Highlighted(updatedBlock), highlightedHTML)
             /\ changesCount' = changesCount + 1
        ELSE /\ highlightedHTML' = Cat(updatedBlock, highlightedHTML)
             /\ changesCount' = changesCount
  /\ idx' = idx + 1
  /\ UNCHANGED <<originalHTML, updatedHTML, originalBlocks, updatedBlocks, originalMap,
                 highlightedData, afterView, editedContent, pc>>
  /\ UNCHANGED hostVars

\* changesCount++ outside the if: every block is counted
HighlightBlockCountingAll ==
  /\ pc = "blocks"
  /\ idx <= Len(updatedBlocks)
  /\ LET updatedBlock == updatedBlocks[idx]
     IN IF ShouldHighlight(originalMap, updatedBlock)
        THEN highlightedHTML' = Cat(highlightedHTML, Highlighted(updatedBlock))
        ELSE highlightedHTML' = Cat(highlightedHTML, updatedBlock)
  /\ changesCount' = changesCount + 1
  /\ idx' = idx + 1
  /\ UNCHANGED <<originalHTML, updatedHTML, originalBlocks, updatedBlocks, originalMap,
                 highlightedData, afterView, editedContent, pc>>
  /\ UNCHANGED hostVars

\* a positional diff: the block is compared with the original block at its index
HighlightBlockPositional ==
  /\ pc = "blocks"
  /\ idx <= Len(updatedBlocks)
  /\ LET updatedBlock == updatedBlocks[idx]
         cleanedUpdated == stripHTML(updatedBlock)
         match == idx <= Len(originalBlocks) /\ stripHTML(originalBlocks[idx]) = cleanedUpdated
     IN IF ~match /\ StrLen(cleanedUpdated) > HighlightThreshold
             /\ ~isSpecialElement(updatedBlock)
        THEN /\ highlightedHTML' = Cat(highlightedHTML, Highlighted(updatedBlock))
             /\ changesCount' = changesCount + 1
        ELSE /\ highlightedHTML' = Cat(highlightedHTML, updatedBlock)
             /\ changesCount' = changesCount
  /\ idx' = idx + 1
  /\ UNCHANGED <<originalHTML, updatedHTML, originalBlocks, updatedBlocks, originalMap,
                 highlightedData, afterView, editedContent, pc>>
  /\ UNCHANGED hostVars

\* lines 113-138, one updated block
HighlightBlock ==
  /\ pc = "blocks"
  /\ idx <= Len(updatedBlocks)
  /\ LET updatedBlock == updatedBlocks[idx]
     IN IF ShouldHighlight(originalMap, updatedBlock)
        THEN /\ highlightedHTML' = Cat(highlightedHTML, Highlighted(updatedBlock))
             /\ changesCount' = changesCount + 1
        ELSE /\ highlightedHTML' = Cat(highlightedHTML, updatedBlock)
             /\ changesCount' = changesCount
  /\ idx' = idx + 1
  /\ UNCHANGED <<originalHTML, updatedHTML, originalBlocks, updatedBlocks, originalMap,
                 highlightedData, afterView, editedContent, pc>>
  /\ UNCHANGED hostVars

\* line 140; the caller stores the result (line 352)
Return ==
  /\ pc = "blocks"
  /\ idx > Len(updatedBlocks)
  /\ highlightedData' = [html |-> highlightedHTML, changesCount |-> changesCount]
  /\ pc' = "returned"
  /\ UNCHANGED <<originalHTML, updatedHTML, originalBlocks, updatedBlocks, originalMap, idx,
                 highlightedHTML, changesCount, afterView, editedContent>>
  /\ UNCHANGED hostVars

(***************************************************************************)
(* The editable view                                                       *)
(***************************************************************************)
\* the effect of lines 364-369 with showHighlights on
SyncAfterView ==
  /\ pc = "returned"
  /\ afterView' = InnerHTML(highlightedData.html)
  /\ pc' = "shown"
  /\ UNCHANGED <<originalHTML, updatedHTML, originalBlocks, updatedBlocks, originalMap, idx,
                 highlightedHTML, changesCount, highlightedData, editedContent>>
  /\ UNCHANGED hostVars

\* lines 377-385 without the replace of line 382: the view is stored as read
handleAfterViewInputRaw ==
  /\ pc \in {"shown", "resynced", "review", "typing"}
  /\ editedContent' = afterView
  /\ pc' = CASE pc = "shown" -> "edited"
             [] pc = "resynced" -> "edited2"
             [] OTHER -> "review"
  /\ pendingEffects' = IF editedContent' # editedContent
                       THEN pendingEffects \cup {"highlight", "sync"}
                       ELSE pendingEffects
  /\ UNCHANGED <<engineVars, highlightedData, afterView, requestVars, reviewVars>>

\* lines 377-385: an input or blur event on the view
handleAfterViewInput ==
  /\ pc \in {"shown", "resynced", "review", "typing"}
  /\ LET rawHTML == afterView
         cleanedHTML == RemoveHighlightDivs(rawHTML)
     IN editedContent' = cleanedHTML
  /\ pc' = CASE pc = "shown" -> "edited"
             [] pc = "resynced" -> "edited2"
             [] OTHER -> "review"
  /\ pendingEffects' = IF editedContent' # editedContent
                       THEN pendingEffects \cup {"highlight", "sync"}
                       ELSE pendingEffects
  /\ UNCHANGED <<engineVars, highlightedData, afterView, requestVars, reviewVars>>

\* the effect of lines 364-369 with showHighlights off: the view shows
\* editedContent
SyncAfterViewPlain ==
  /\ pc = "edited"
  /\ afterView' = InnerHTML(editedContent)
  /\ pc' = "resynced"
  /\ UNCHANGED <<originalHTML, updatedHTML, originalBlocks, updatedBlocks, originalMap, idx,
                 highlightedHTML, changesCount, highlightedData, editedContent>>
  /\ UNCHANGED hostVars

(***************************************************************************)
(* Spec: one call of createHighlightedHTML on every pair of documents,     *)
(* its result shown in the view and read back                              *)
(***************************************************************************)
\* the nodes of ns in the order p
Permuted(ns, p) == [i \in 1..Len(ns) |-> ns[p[i]]]

\* every candidate is compared with the small originals and with every
\* reordering of itself
Init ==
  /\ \E ns \in NodeSeqs(UpdatedPalette, MaxUpdatedNodes) :
       /\ updatedHTML = Flatten(ns)
       /\ originalHTML \in
            OriginalDocs \cup {Flatten(Permuted(ns, p)) : p \in Permutations(1..Len(ns))}
  /\ originalBlocks = <<>>
  /\ updatedBlocks = <<>>
  /\ originalMap = {}
  /\ idx = 0
  /\ highlightedHTML = <<>>
  /\ changesCount = 0
  /\ highlightedData = Null
  /\ afterView = <<>>
  /\ editedContent = updatedHTML
  /\ pc = "start"
  /\ postBody = originalHTML
  /\ response = updatedHTML
  /\ result = <<[content |-> updatedHTML, originalContent |-> originalHTML]>>
  /\ showHighlights = TRUE
  /\ view = "review"
  /\ viewMode = "changes"
  /\ loading = FALSE
  /\ status = "success"
  /\ pendingEffects = {}
  /\ selectedBlog = <<Blog(1, originalHTML)>>
  /\ blogs = <<Blog(1, originalHTML)>>
  /\ config = FullConfig
  /\ savedConfig = <<FullConfig>>
  /\ localStorage = <<FullConfig>>
  /\ requests = <<>>

Next ==
  \/ SplitBlocks
  \/ MapOriginalBlock
  \/ MapDone
  \/ HighlightBlock
  \/ Return
  \/ SyncAfterView
  \/ handleAfterViewInput

Spec == Init /\ [][Next]_vars

(***************************************************************************)
(* SpecEscaped: the same call on candidates with character references and  *)
(* with wrapper markup of their own                                        *)
(***************************************************************************)
InitEscaped ==
  /\ \E ns \in NodeSeqs(EscapedPalette, MaxUpdatedNodes) :
       /\ updatedHTML = Flatten(ns)
       /\ originalHTML \in
            OriginalDocs \cup {Flatten(Permuted(ns, p)) : p \in Permutations(1..Len(ns))}
  /\ originalBlocks = <<>>
  /\ updatedBlocks = <<>>
  /\ originalMap = {}
  /\ idx = 0
  /\ highlightedHTML = <<>>
  /\ changesCount = 0
  /\ highlightedData = Null
  /\ afterView = <<>>
  /\ editedContent = updatedHTML
  /\ pc = "start"
  /\ postBody = originalHTML
  /\ response = updatedHTML
  /\ result = <<[content |-> updatedHTML, originalContent |-> originalHTML]>>
  /\ showHighlights = TRUE
  /\ view = "review"
  /\ viewMode = "changes"
  /\ loading = FALSE
  /\ status = "success"
  /\ pendingEffects = {}
  /\ selectedBlog = <<Blog(1, originalHTML)>>
  /\ blogs = <<Blog(1, originalHTML)>>
  /\ config = FullConfig
  /\ savedConfig = <<FullConfig>>
  /\ localStorage = <<FullConfig>>
  /\ requests = <<>>

SpecEscaped == InitEscaped /\ [][Next]_vars

(***************************************************************************)
(* SpecMalformed: the same call on markup that is not a well-formed        *)
(* fragment                                                                *)
(***************************************************************************)
InitMalformed ==
  /\ \E ns \in NodeSeqs(MalformedPalette, MaxUpdatedNodes) :
       /\ updatedHTML = Flatten(ns)
       /\ originalHTML \in
            OriginalDocs \cup {Flatten(Permuted(ns, p)) : p \in Permutations(1..Len(ns))}
  /\ originalBlocks = <<>>
  /\ updatedBlocks = <<>>
  /\ originalMap = {}
  /\ idx = 0
  /\ highlightedHTML = <<>>
  /\ changesCount = 0
  /\ highlightedData = Null
  /\ afterView = <<>>
  /\ editedContent = updatedHTML
  /\ pc = "start"
  /\ postBody = originalHTML
  /\ response = updatedHTML
  /\ result = <<[content |-> updatedHTML, originalContent |-> originalHTML]>>
  /\ showHighlights = TRUE
  /\ view = "review"
  /\ viewMode = "changes"
  /\ loading = FALSE
  /\ status = "success"
  /\ pendingEffects = {}
  /\ selectedBlog = <<Blog(1, originalHTML)>>
  /\ blogs = <<Blog(1, originalHTML)>>
  /\ config = FullConfig
  /\ savedConfig = <<FullConfig>>
  /\ localStorage = <<FullConfig>>
  /\ requests = <<>>

SpecMalformed == InitMalformed /\ [][Next]_vars

(***************************************************************************)
(* SpecView: the stripper on every content the editable view can hold      *)
(***************************************************************************)
ViewAlphabet ==
  {WrapperOpen, Open("div", <<>>), Close("div"), Text("x", 1), Text("y", 1)}

\* innerHTML is always the serialization of a tree: reading it back after
\* writing it gives the same string
EditedViews ==
  {v \in UNION {[1..m -> ViewAlphabet] : m \in 0..MaxViewTokens} : InnerHTML(v) = v}

InitView ==
  /\ afterView \in EditedViews
  /\ originalHTML = <<>>
  /\ updatedHTML = <<>>
  /\ originalBlocks = <<>>
  /\ updatedBlocks = <<>>
  /\ originalMap = {}
  /\ idx = 0
  /\ highlightedHTML = <<>>
  /\ changesCount = 0
  /\ highlightedData = Null
  /\ editedContent = <<>>
  /\ pc = "shown"
  /\ postBody = <<>>
  /\ response = <<>>
  /\ result = <<[content |-> <<>>, originalContent |-> <<>>]>>
  /\ showHighlights = FALSE
  /\ view = "review"
  /\ viewMode = "changes"
  /\ loading = FALSE
  /\ status = "success"
  /\ pendingEffects = {}
  /\ selectedBlog = <<Blog(1, originalHTML)>>
  /\ blogs = <<Blog(1, originalHTML)>>
  /\ config = FullConfig
  /\ savedConfig = <<FullConfig>>
  /\ localStorage = <<FullConfig>>
  /\ requests = <<>>

NextView ==
  \/ handleAfterViewInput
  \/ SyncAfterViewPlain

SpecView == InitView /\ [][NextView]_vars

(***************************************************************************)
(* createHighlightedHTML as one function of its two arguments              *)
(***************************************************************************)
\* lines 102-108: the map after the blocks from position i on are entered
RECURSIVE MapOfBlocks(_, _, _)
MapOfBlocks(blocks, i, map) ==
  IF i > Len(blocks) THEN map
  ELSE LET cleaned == stripHTML(blocks[i])
       IN MapOfBlocks(blocks, i + 1,
                      IF IsKey(cleaned) THEN MapSet(map, cleaned, blocks[i], i - 1) ELSE map)

\* lines 75-141, for arguments that parse to a container
createHighlightedHTML(original, updated) ==
  LET oBlocks == splitIntoBlocks(original)
      uBlocks == splitIntoBlocks(updated)
      map == MapOfBlocks(oBlocks, 1, {})
      changed == {i \in 1..Len(uBlocks) : ShouldHighlight(map, uBlocks[i])}
  IN [html |-> Flatten([i \in 1..Len(uBlocks) |->
                          IF i \in changed THEN Highlighted(uBlocks[i]) ELSE uBlocks[i]]),
      changesCount |-> Cardinality(changed)]

(***************************************************************************)
(* analyzeBlog after the response arrived (App.jsx 597-707)                *)
(***************************************************************************)
\* position of the first "*" text after position 1, or 0
FirstStars(s) ==
  LET J == {j \in 2..Len(s) : s[j].k = "text" /\ s[j].c = "*"}
  IN IF J = {} THEN 0 ELSE CHOOSE j \in J : \A m \in J : j <= m

Stars(n) == IF n > 0 THEN <<Text("*", n)>> ELSE <<>>

\* .replace(/\*\*([^*]+)\*\*/g, '<strong>$1</strong>') (line 601)
RECURSIVE FixBold(_)
FixBold(s) ==
  IF s = <<>> THEN <<>>
  ELSE
    LET j == FirstStars(s) IN
    IF /\ s[1].k = "text" /\ s[1].c = "*" /\ s[1].n >= 2
       /\ j > 2 /\ s[j].n >= 2
    THEN Cat(Stars(s[1].n - 2),
             Cat(<<Open("strong", <<>>)>> \o SubSeq(s, 2, j - 1) \o <<Close("strong")>>,
                 FixBold(Stars(s[j].n - 2) \o SubSeq(s, j + 1, Len(s)))))
    ELSE Cat(<<s[1]>>, FixBold(Tail(s)))

\* .match(/<[a-z][\s\S]*>/i): an opening tag
HasHTMLTags(s) == \E i \in 1..Len(s) : s[i].k = "open"

RECURSIVE SumLen(_)
SumLen(strings) == IF strings = <<>> THEN 0 ELSE Len(strings[1]) + SumLen(Tail(strings))

\* code units of the attributes as written: space, name, =, quoted value
RECURSIVE AttrsLen(_)
AttrsLen(attrs) ==
  IF attrs = <<>> THEN 0
  ELSE 1 + Len(attrs[1].name) + 2 + SumLen(attrs[1].val) + 1 + AttrsLen(Tail(attrs))

\* .length of a string with tags
RECURSIVE CharCount(_)
CharCount(s) ==
  IF s = <<>> THEN 0
  ELSE LET t == s[1]
           n == CASE t.k = "text" -> t.n * AtomLen(t.c)
                  [] t.k = "open" -> 1 + Len(t.tag) + AttrsLen(t.attrs) + 1
                  [] t.k = "close" -> 2 + Len(t.tag) + 1
       IN n + CharCount(Tail(s))

\* (s.match(/<tag/g) || []).length
TagCount(s, tag) == Cardinality({i \in 1..Len(s) : s[i].k = "open" /\ s[i].tag = tag})

ContainsWWidget(val) == \E i \in 1..(Len(val) - 1) : val[i] = "w-" /\ val[i + 1] = "widget"

\* the class="..." attributes of s, by position
ClassAttrs(s) ==
  {<<i, j>> \in (1..Len(s)) \X (1..2) :
     s[i].k = "open" /\ j <= Len(s[i].attrs) /\ s[i].attrs[j].name = "class"}

\* lines 548-550, 624-626: the three counts added up
WidgetCount(s) ==
  Cardinality({a \in ClassAttrs(s) : ContainsWEmbed(s[a[1]].attrs[a[2]].val)})
  + Cardinality({a \in ClassAttrs(s) : ContainsWWidget(s[a[1]].attrs[a[2]].val)})
  + Cardinality({a \in ClassAttrs(s) : ContainsInfoWidget(s[a[1]].attrs[a[2]].val)})

\* returnedCharCount < originalCharCount * truncationThreshold, with 0.7
TruncationPercent == 70
IsTruncated(returnedCharCount, originalCharCount) ==
  returnedCharCount * 100 < originalCharCount * TruncationPercent

\* lines 639-656
ElementsLost(updatedContent, fullOriginalContent) ==
  \/ TagCount(updatedContent, "img") < TagCount(fullOriginalContent, "img")
  \/ TagCount(updatedContent, "table") < TagCount(fullOriginalContent, "table")
  \/ TagCount(updatedContent, "iframe") < TagCount(fullOriginalContent, "iframe")
  \/ TagCount(updatedContent, "embed") < TagCount(fullOriginalContent, "embed")
  \/ WidgetCount(updatedContent) < WidgetCount(fullOriginalContent)
  \/ TagCount(updatedContent, "script") < TagCount(fullOriginalContent, "script")

\* lines 598-674: the content that goes on, updatedContent at line 676
ValidatedContent(content, fullOriginalContent) ==
  LET received == FixBold(IF content = <<>> THEN fullOriginalContent ELSE content)
      afterPlain == IF ~HasHTMLTags(received) /\ HasHTMLTags(fullOriginalContent)
                    THEN fullOriginalContent ELSE received
      returnedCharCount == CharCount(afterPlain)
      afterLoss == IF ElementsLost(afterPlain, fullOriginalContent)
                   THEN fullOriginalContent ELSE afterPlain
  IN IF IsTruncated(returnedCharCount, CharCount(fullOriginalContent))
     THEN fullOriginalContent ELSE afterLoss

\* position of the oldest request of the operation, or 0
FirstRequest(op) ==
  LET I == {i \in 1..Len(requests) : requests[i].op = op}
  IN IF I = {} THEN 0 ELSE CHOOSE i \in I : \A j \in I : i <= j

\* the requests without that one
Answered(op) ==
  LET i == FirstRequest(op)
  IN SubSeq(requests, 1, i - 1) \o SubSeq(requests, i + 1, Len(requests))

\* lines 597-707: the response is ok, the review view is rendered
AnalyzeBlogResponse ==
  /\ pc = "analyzing"
  /\ FirstRequest("analyzeBlog") > 0
  /\ requests' = Answered("analyzeBlog")
  /\ LET fullOriginalContent == postBody
         received == FixBold(IF response = <<>> THEN fullOriginalContent ELSE response)
         afterPlain == IF ~HasHTMLTags(received) /\ HasHTMLTags(fullOriginalContent)
                       THEN fullOriginalContent ELSE received
         returnedCharCount == CharCount(afterPlain)
         updatedContent == ValidatedContent(response, fullOriginalContent)
     IN /\ highlightedData' = createHighlightedHTML(fullOriginalContent, updatedContent)
        /\ result' = <<[content |-> updatedContent, originalContent |-> fullOriginalContent]>>
        /\ editedContent' = updatedContent
        /\ status' = IF IsTruncated(returnedCharCount, CharCount(fullOriginalContent))
                     THEN "error" ELSE "success"
  /\ view' = "review"
  /\ viewMode' = "changes"
  /\ loading' = FALSE
  /\ afterView' = <<>>
  /\ pendingEffects' = {"highlight", "sync"}
  /\ pc' = "mounting"
  /\ UNCHANGED <<engineVars, postBody, response, selectedBlog, blogs, config, savedConfig,
                 localStorage, showHighlights>>

(***************************************************************************)
(* The review view (App.jsx 349-385, 942-947, 1227, 1483-1489)             *)
(***************************************************************************)
\* the effects of lines 349-354 and 364-369, in this order, with the values of
\* the render they belong to; setHighlightedData gives a new render, whose
\* sync effect ("resync") runs in a later task
RunEffects ==
  /\ pendingEffects # {}
  /\ LET highlight == /\ "highlight" \in pendingEffects
                      /\ result # <<>>
                      /\ editedContent # <<>>
                      /\ result[1].originalContent # <<>>
         contentToShow == IF showHighlights /\ highlightedData.html # <<>>
                          THEN highlightedData.html
                          ELSE editedContent
     IN /\ highlightedData' =
             IF highlight
             THEN createHighlightedHTML(result[1].originalContent, editedContent)
             ELSE highlightedData
        /\ afterView' = IF viewMode = "changes" /\ view = "review"
                        THEN InnerHTML(contentToShow)
                        ELSE afterView
        /\ pendingEffects' = IF highlight THEN {"resync"} ELSE {}
  /\ pc' = IF pc = "mounting" THEN "review" ELSE pc
  /\ UNCHANGED <<engineVars, editedContent, requestVars, reviewVars>>

\* the effects of a click or a key press run before the next event is
\* handled; the render that setHighlightedData asks for does not
EventEffectsDone == pendingEffects \subseteq {"resync"}

\* what the user can do to the content of the editable view in one input:
\* delete everything, or put a new paragraph after it
ParaC == Elem("p", <<>>, LongC)
MaxTypedTokens == 9
UserEdits(shown) ==
  {<<>>} \cup (IF Len(shown) + Len(ParaC) <= MaxTypedTokens THEN {Cat(shown, ParaC)} ELSE {})

\* the browser changes the contentEditable div (lines 1483-1489) and then
\* dispatches the input event
UserEditsAfterView ==
  /\ pc = "review"
  /\ view = "review" /\ viewMode = "changes"
  /\ EventEffectsDone
  /\ \E v \in UserEdits(afterView) : afterView' = v
  /\ pc' = "typing"
  /\ UNCHANGED <<engineVars, highlightedData, editedContent, hostVars>>

\* the blur event of line 1489: the handler reads the view as it is
BlurAfterView ==
  /\ pc = "review"
  /\ view = "review" /\ viewMode = "changes"
  /\ EventEffectsDone
  /\ handleAfterViewInput

\* the input event that follows an edit
InputAfterView ==
  /\ pc = "typing"
  /\ handleAfterViewInput

\* line 1227
ToggleHighlights ==
  /\ pc = "review"
  /\ EventEffectsDone
  /\ showHighlights' = ~showHighlights
  /\ pendingEffects' = pendingEffects \cup {"sync"}
  /\ UNCHANGED <<engineVars, highlightedData, afterView, editedContent, pc, requestVars,
                 result, view, viewMode, loading, status>>

\* lines 942-947: the button shown while editedContent has fewer tables
RestoreOriginal ==
  /\ pc = "review"
  /\ EventEffectsDone
  /\ result # <<>>
  /\ TagCount(editedContent, "table") < TagCount(result[1].originalContent, "table")
  /\ editedContent' = result[1].originalContent
  /\ pendingEffects' = pendingEffects \cup {"highlight", "sync"}
  /\ UNCHANGED <<engineVars, highlightedData, afterView, pc, requestVars, reviewVars>>

\* lines 961 and 971: the editable view exists in the 'changes' mode only and
\* is empty when it is created
SetViewMode ==
  /\ pc = "review"
  /\ EventEffectsDone
  /\ \E mode \in {"changes", "edit"} :
       /\ mode # viewMode
       /\ viewMode' = mode
  /\ afterView' = <<>>
  /\ pendingEffects' = pendingEffects \cup {"sync"}
  /\ UNCHANGED <<engineVars, highlightedData, editedContent, pc, requestVars, result,
                 showHighlights, view, loading, status>>

\* what is typed into the HTML source
TypedSources == {<<>>, ParaC}

\* lines 1013 and 1028: the editors of the 'edit' mode call setEditedContent
\* with their content
EditSource ==
  /\ pc = "review"
  /\ viewMode = "edit"
  /\ EventEffectsDone
  /\ \E value \in TypedSources :
       /\ value # editedContent
       /\ editedContent' = value
  /\ pendingEffects' = pendingEffects \cup {"highlight", "sync"}
  /\ UNCHANGED <<engineVars, highlightedData, afterView, pc, requestVars, reviewVars>>

(***************************************************************************)
(* The session: setup, dashboard, requests and navigation                  *)
(* (App.jsx 499-527, 529-533, 702-734, 742-813, 833-866, 1504-1524)        *)
(***************************************************************************)
contentVars == <<highlightedData, afterView, editedContent>>

\* a click is handled when the effects of the last event have run and no
\* input event is due
AppIdle == pc \in {"idle", "review", "analyzing"} /\ EventEffectsDone

\* setView(v) for a view other than 'review': the review view, if shown, is
\* unmounted with its editable node
Navigate(v) ==
  /\ AppIdle
  /\ view' = v
  /\ pc' = IF pc = "analyzing" THEN pc ELSE "idle"
  /\ afterView' = <<>>
  /\ UNCHANGED <<engineVars, highlightedData, editedContent, postBody, response, blogs,
                 config, savedConfig, localStorage, requests, showHighlights, viewMode,
                 loading, status>>

\* line 742
ClickLogo ==
  /\ Navigate("home")
  /\ UNCHANGED <<result, selectedBlog, pendingEffects>>

\* line 751, rendered when savedConfig is not null (line 749)
ClickNavDashboard ==
  /\ savedConfig # <<>>
  /\ Navigate("dashboard")
  /\ UNCHANGED <<result, selectedBlog, pendingEffects>>

\* line 752
ClickNavSetup ==
  /\ savedConfig # <<>>
  /\ Navigate("setup")
  /\ UNCHANGED <<result, selectedBlog, pendingEffects>>

\* line 771
ClickGetStarted ==
  /\ view = "home"
  /\ Navigate(IF savedConfig # <<>> THEN "dashboard" ELSE "setup")
  /\ UNCHANGED <<result, selectedBlog, pendingEffects>>

\* line 1504, rendered when view === 'review' && result (line 884)
ClickCancel ==
  /\ view = "review" /\ result # <<>>
  /\ Navigate("dashboard")
  /\ UNCHANGED <<result, selectedBlog, pendingEffects>>

\* line 1524: setView('dashboard'); setResult(null); setSelectedBlog(null)
ClickBackToDashboard ==
  /\ view = "success"
  /\ Navigate("dashboard")
  /\ result' = <<>>
  /\ selectedBlog' = <<>>
  /\ pendingEffects' = pendingEffects \cup {"highlight"}

\* lines 797-811: a field of the setup form is filled in or cleared
setConfig ==
  /\ view = "setup"
  /\ AppIdle
  /\ \E f \in ConfigFields, v \in {"", "k"} :
       /\ v # config[f]
       /\ config' = [config EXCEPT ![f] = v]
  /\ UNCHANGED <<engineVars, contentVars, pc, postBody, response, selectedBlog, blogs,
                 savedConfig, localStorage, requests, reviewVars, pendingEffects>>

\* lines 511-514: fetchBlogs up to its await
FetchBlogsRequested ==
  /\ loading' = TRUE
  /\ status' = "info"
  /\ requests' = Append(requests, [op |-> "fetchBlogs", collectionId |-> config.collectionId])

\* lines 504-507 without the test of lines 500-503
saveConfigUnchecked ==
  /\ view = "setup"
  /\ ~loading
  /\ AppIdle
  /\ localStorage' = <<config>>
  /\ savedConfig' = <<config>>
  /\ FetchBlogsRequested
  /\ UNCHANGED <<engineVars, contentVars, pc, postBody, response, selectedBlog, blogs, config,
                 result, showHighlights, view, viewMode, pendingEffects>>

\* lines 499-508, the button of line 813 (disabled while loading); the item
\* of localStorage is the JSON text of config, which parses to the same fields
saveConfig ==
  /\ view = "setup"
  /\ ~loading
  /\ AppIdle
  /\ IF \E f \in ConfigFields : config[f] = ""
     THEN /\ status' = "error"
          /\ UNCHANGED <<localStorage, savedConfig, loading, requests>>
     ELSE /\ localStorage' = <<config>>
          /\ savedConfig' = <<config>>
          /\ FetchBlogsRequested
  /\ UNCHANGED <<engineVars, contentVars, pc, postBody, response, selectedBlog, blogs, config,
                 result, showHighlights, view, viewMode, pendingEffects>>

\* the Refresh button of line 833 without its disabled attribute
fetchBlogsWhileLoading ==
  /\ view = "dashboard"
  /\ Len(requests) < 2
  /\ AppIdle
  /\ FetchBlogsRequested
  /\ UNCHANGED <<engineVars, contentVars, pc, postBody, response, selectedBlog, blogs, config,
                 savedConfig, localStorage, result, showHighlights, view, viewMode,
                 pendingEffects>>

\* lines 510-514, the Refresh button of line 833 (disabled while loading)
fetchBlogs ==
  /\ view = "dashboard"
  /\ ~loading
  /\ AppIdle
  /\ FetchBlogsRequested
  /\ UNCHANGED <<engineVars, contentVars, pc, postBody, response, selectedBlog, blogs, config,
                 savedConfig, localStorage, result, showHighlights, view, viewMode,
                 pendingEffects>>

\* the collection the backend lists
Collection == <<Blog(1, ParaB), Blog(2, ParaA)>>

\* lines 515-521, 525: the response is ok
FetchBlogsResponse ==
  /\ FirstRequest("fetchBlogs") > 0
  /\ AppIdle
  /\ requests' = Answered("fetchBlogs")
  /\ blogs' \in {<<>>, Collection}
  /\ status' = "success"
  /\ view' = "dashboard"
  /\ loading' = FALSE
  /\ pc' = IF pc = "analyzing" THEN pc ELSE "idle"
  /\ afterView' = <<>>
  /\ UNCHANGED <<engineVars, highlightedData, editedContent, postBody, response, selectedBlog,
                 config, savedConfig, localStorage, result, showHighlights, viewMode,
                 pendingEffects>>

\* lines 515-517, 522-526: the fetch rejects or the response is not ok
FetchBlogsFailed ==
  /\ FirstRequest("fetchBlogs") > 0
  /\ AppIdle
  /\ requests' = Answered("fetchBlogs")
  /\ status' = "error"
  /\ loading' = FALSE
  /\ UNCHANGED <<engineVars, contentVars, pc, postBody, response, selectedBlog, blogs, config,
                 savedConfig, localStorage, result, showHighlights, view, viewMode,
                 pendingEffects>>

\* what the backend answers to an analysis: a rewritten paragraph, no content
AppResponses == {ParaC, <<>>}

\* lines 529-591 up to the await, the button of line 866 (in the list shown
\* when loading is false, line 837)
analyzeBlog ==
  /\ view = "dashboard"
  /\ ~loading
  /\ AppIdle
  /\ \E i \in 1..Len(blogs) :
       /\ selectedBlog' = <<blogs[i]>>
       /\ postBody' = blogs[i].postBody
       /\ requests' = Append(requests, [op |-> "analyzeBlog", blogContent |-> blogs[i].postBody])
  /\ response' \in AppResponses
  /\ loading' = TRUE
  /\ status' = "info"
  /\ pc' = "analyzing"
  /\ UNCHANGED <<engineVars, contentVars, blogs, config, savedConfig, localStorage, result,
                 showHighlights, view, viewMode, pendingEffects>>

\* the catch block of lines 702-705 with a setResult(null) added
AnalyzeBlogFailedClearingResult ==
  /\ pc = "analyzing"
  /\ FirstRequest("analyzeBlog") > 0
  /\ EventEffectsDone
  /\ requests' = Answered("analyzeBlog")
  /\ status' = "error"
  /\ loading' = FALSE
  /\ result' = <<>>
  /\ pendingEffects' = pendingEffects \cup {"highlight"}
  /\ pc' = IF view = "review" THEN "review" ELSE "idle"
  /\ UNCHANGED <<engineVars, contentVars, postBody, response, selectedBlog, blogs, config,
                 savedConfig, localStorage, showHighlights, view, viewMode>>

\* the catch block of lines 702-705 with a setView('review') added
AnalyzeBlogFailedIntoReview ==
  /\ pc = "analyzing"
  /\ FirstRequest("analyzeBlog") > 0
  /\ EventEffectsDone
  /\ requests' = Answered("analyzeBlog")
  /\ status' = "error"
  /\ loading' = FALSE
  /\ view' = "review"
  /\ pc' = "review"
  /\ UNCHANGED <<engineVars, contentVars, postBody, response, selectedBlog, blogs, config,
                 savedConfig, localStorage, result, showHighlights, viewMode, pendingEffects>>

\* lines 578-596, 702-707: the fetch rejects, the response is not ok, or a
\* statement before line 681 throws
AnalyzeBlogFailed ==
  /\ pc = "analyzing"
  /\ FirstRequest("analyzeBlog") > 0
  /\ EventEffectsDone
  /\ requests' = Answered("analyzeBlog")
  /\ status' = "error"
  /\ loading' = FALSE
  /\ pc' = IF view = "review" THEN "review" ELSE "idle"
  /\ UNCHANGED <<engineVars, contentVars, postBody, response, selectedBlog, blogs, config,
                 savedConfig, localStorage, result, showHighlights, view, viewMode,
                 pendingEffects>>

\* lines 710-725 up to the await, the button of line 1505 (disabled while
\* loading, rendered when view === 'review' && result)
publishToWebflow ==
  /\ view = "review" /\ result # <<>>
  /\ ~loading
  /\ pc = "review"
  /\ EventEffectsDone
  /\ IF selectedBlog = <<>>
     THEN UNCHANGED <<loading, status, requests>>
     ELSE /\ loading' = TRUE
          /\ status' = "info"
          /\ requests' = Append(requests, [op |-> "publishToWebflow",
                                           itemId |-> selectedBlog[1].id,
                                           postBody |-> editedContent])
  /\ UNCHANGED <<engineVars, contentVars, pc, postBody, response, selectedBlog, blogs, config,
                 savedConfig, localStorage, result, showHighlights, view, viewMode,
                 pendingEffects>>

\* lines 726-728, 732: the response is ok
PublishResponse ==
  /\ FirstRequest("publishToWebflow") > 0
  /\ AppIdle
  /\ requests' = Answered("publishToWebflow")
  /\ status' = "success"
  /\ view' = "success"
  /\ loading' = FALSE
  /\ pc' = IF pc = "analyzing" THEN pc ELSE "idle"
  /\ afterView' = <<>>
  /\ UNCHANGED <<engineVars, highlightedData, editedContent, postBody, response, selectedBlog,
                 blogs, config, savedConfig, localStorage, result, showHighlights, viewMode,
                 pendingEffects>>

\* lines 729-731 without the finally block of lines 731-733
PublishFailedWithoutFinally ==
  /\ FirstRequest("publishToWebflow") > 0
  /\ AppIdle
  /\ requests' = Answered("publishToWebflow")
  /\ status' = "error"
  /\ UNCHANGED <<engineVars, contentVars, pc, postBody, response, selectedBlog, blogs, config,
                 savedConfig, localStorage, result, showHighlights, view, viewMode, loading,
                 pendingEffects>>

\* lines 713-726, 729-733: the fetch rejects or the response is not ok
PublishFailed ==
  /\ FirstRequest("publishToWebflow") > 0
  /\ AppIdle
  /\ requests' = Answered("publishToWebflow")
  /\ status' = "error"
  /\ loading' = FALSE
  /\ UNCHANGED <<engineVars, contentVars, pc, postBody, response, selectedBlog, blogs, config,
                 savedConfig, localStorage, result, showHighlights, view, viewMode,
                 pendingEffects>>

(***************************************************************************)
(* SpecApp: the session from the home view on                              *)
(***************************************************************************)
\* lines 317-346: the state after the mount effect has read localStorage
InitApp ==
  /\ localStorage \in {<<>>, <<FullConfig>>}
  /\ savedConfig = localStorage
  /\ config = IF localStorage = <<>> THEN EmptyConfig ELSE localStorage[1]
  /\ view = "home"
  /\ blogs = <<>>
  /\ selectedBlog = <<>>
  /\ loading = FALSE
  /\ status = ""
  /\ result = <<>>
  /\ viewMode = "changes"
  /\ editedContent = <<>>
  /\ highlightedData = Null
  /\ showHighlights = FALSE
  /\ afterView = <<>>
  /\ requests = <<>>
  /\ postBody = <<>>
  /\ response = <<>>
  /\ pendingEffects = {}
  /\ pc = "idle"
  /\ originalHTML = <<>>
  /\ updatedHTML = <<>>
  /\ originalBlocks = <<>>
  /\ updatedBlocks = <<>>
  /\ originalMap = {}
  /\ idx = 0
  /\ highlightedHTML = <<>>
  /\ changesCount = 0

NextApp ==
  \/ ClickLogo
  \/ ClickNavDashboard
  \/ ClickNavSetup
  \/ ClickGetStarted
  \/ ClickCancel
  \/ ClickBackToDashboard
  \/ setConfig
  \/ saveConfig
  \/ fetchBlogs
  \/ FetchBlogsResponse
  \/ FetchBlogsFailed
  \/ analyzeBlog
  \/ AnalyzeBlogResponse
  \/ AnalyzeBlogFailed
  \/ publishToWebflow
  \/ PublishResponse
  \/ PublishFailed
  \/ RunEffects
  \/ UserEditsAfterView
  \/ InputAfterView

SpecApp == InitApp /\ [][NextApp]_vars

(***************************************************************************)
(* SpecHost: a response arrives, then the review view is used              *)
(***************************************************************************)
\* a markdown answer without tags: **bbb...**
BoldB == <<Text("*", 2)>> \o LongB \o <<Text("*", 2)>>

HostOriginals == {ParaB, Cat(ParaA, TableC), LongA}

HostResponses ==
  {<<>>, ParaB, Cat(ParaB, ParaA), LongB, BoldB, ParaShort, Cat(ParaA, TableC),
   Cat(Cat(ParaA, ParaB), ParaC), NestedDiv, Highlighted(ParaB)}

InitHost ==
  /\ postBody \in HostOriginals
  /\ response \in HostResponses
  /\ originalHTML = <<>>
  /\ updatedHTML = <<>>
  /\ originalBlocks = <<>>
  /\ updatedBlocks = <<>>
  /\ originalMap = {}
  /\ idx = 0
  /\ highlightedHTML = <<>>
  /\ changesCount = 0
  /\ highlightedData = Null
  /\ afterView = <<>>
  /\ editedContent = <<>>
  /\ pc = "analyzing"
  /\ result = <<>>
  /\ showHighlights = FALSE
  /\ view = "dashboard"
  /\ viewMode = "changes"
  /\ loading = TRUE
  /\ status = "info"
  /\ pendingEffects = {}
  /\ selectedBlog = <<Blog(1, postBody)>>
  /\ blogs = <<Blog(1, postBody)>>
  /\ config = FullConfig
  /\ savedConfig = <<FullConfig>>
  /\ localStorage = <<FullConfig>>
  /\ requests = <<[op |-> "analyzeBlog", blogContent |-> postBody]>>

NextHost ==
  \/ AnalyzeBlogResponse
  \/ RunEffects
  \/ UserEditsAfterView
  \/ InputAfterView
  \/ BlurAfterView
  \/ ToggleHighlights
  \/ RestoreOriginal
  \/ SetViewMode
  \/ EditSource
  \/ publishToWebflow
  \/ PublishResponse
  \/ PublishFailed

SpecHost == InitHost /\ [][NextHost]_vars

(***************************************************************************)
(* Vocabulary of the properties                                            *)
(***************************************************************************)
\* a block inside exactly one wrapper container
Wrapped(block) ==
  <<Open("div", <<Attr("style", <<HighlightStylePrefix, HighlightStyleRest>>)>>)>>
    \o block \o <<Close("div")>>

\* the document made of blocks, those with flag[i] wrapped
Annotated(blocks, flag) ==
  Flatten([i \in 1..Len(blocks) |-> IF flag[i] THEN Wrapped(blocks[i]) ELSE blocks[i]])

FlagCount(blocks, flag) == Cardinality({i \in 1..Len(blocks) : flag[i]})

\* the normalized texts of all blocks of the original
OriginalTexts == {stripHTML(originalBlocks[i]) : i \in 1..Len(originalBlocks)}

\* the candidate blocks the loop has dealt with
Processed == SubSeq(updatedBlocks, 1, idx - 1)

\* createHighlightedHTML has just returned: every candidate block is processed
Returned == pc = "returned"

IsNewText(block) == stripHTML(block) \notin OriginalTexts
IsLong(block) == StrLen(stripHTML(block)) > HighlightThreshold

\* the flags the output shows: the only flag vectors that explain
\* highlightedHTML and changesCount
ShownFlags ==
  {flag \in [1..Len(Processed) -> BOOLEAN] :
     /\ highlightedHTML = Annotated(Processed, flag)
     /\ changesCount = FlagCount(Processed, flag)}

(***************************************************************************)
(* Properties of createHighlightedHTML                                     *)
(***************************************************************************)
\* C1: a candidate block is wrapped and counted if and only if its normalized
\* text is the normalized text of no original block, it is not a special
\* element, and its normalized text is longer than 20 characters; when the
\* candidate is the original followed by new such blocks, exactly those are
\* wrapped and the original blocks are emitted untouched.
C1_FlaggedIff ==
  Returned =>
    LET flag == [i \in 1..Len(Processed) |->
                   /\ IsNewText(Processed[i])
                   /\ ~isSpecialElement(Processed[i])
                   /\ IsLong(Processed[i])]
        n == Len(originalBlocks)
    IN /\ highlightedHTML = Annotated(Processed, flag)
       /\ changesCount = FlagCount(Processed, flag)
       /\ ( /\ Len(updatedBlocks) >= n
            /\ SubSeq(updatedBlocks, 1, n) = originalBlocks
            /\ \A i \in (n + 1)..Len(updatedBlocks) :
                 /\ IsNewText(updatedBlocks[i])
                 /\ ~isSpecialElement(updatedBlocks[i])
                 /\ IsLong(updatedBlocks[i]) )
          => /\ changesCount = Len(updatedBlocks) - n
             /\ highlightedHTML =
                  Cat(Flatten(originalBlocks),
                      Flatten([i \in 1..(Len(updatedBlocks) - n) |->
                                 Wrapped(updatedBlocks[n + i])]))

\* pure addition: the original's <p>, then a new <p> of 21 characters
C1_Witness ==
  /\ Returned
  /\ originalBlocks = <<ParaA>>
  /\ updatedBlocks = <<ParaA, ParaB>>
  /\ changesCount = 1
  /\ highlightedHTML = Cat(ParaA, Wrapped(ParaB))

\* C2: a candidate block classified as a special element is never wrapped and
\* never counted, whether or not its text occurs in the original and however
\* long it is; it is emitted exactly as its serialized HTML.
C2_ProtectedImmunity ==
  Returned =>
    /\ ShownFlags # {}
    /\ \A flag \in ShownFlags :
         \A i \in 1..Len(Processed) : isSpecialElement(Processed[i]) => ~flag[i]

\* a new <table> of 21 characters of text, absent from the original
C2_Witness ==
  /\ Returned
  /\ updatedBlocks # <<>>
  /\ updatedBlocks[Len(updatedBlocks)] = TableC
  /\ IsNewText(TableC)
  /\ IsLong(TableC)
  /\ changesCount = 0
  /\ highlightedHTML = Flatten(updatedBlocks)

\* the classifier as the specification words it
HasTag(block, tags) ==
  \E i \in 1..Len(block) : block[i].k = "open" /\ block[i].tag \in tags
HasClassFragments(block, frags) ==
  \E i \in 1..Len(block) :
    /\ block[i].k = "open"
    /\ \E j \in 1..Len(block[i].attrs) :
         /\ block[i].attrs[j].name = "class"
         /\ \E m \in 0..(Len(block[i].attrs[j].val) - Len(frags)) :
              SubSeq(block[i].attrs[j].val, m + 1, m + Len(frags)) = frags
HasAttribute(block, names) ==
  \E i \in 1..Len(block) :
    /\ block[i].k = "open"
    /\ \E j \in 1..Len(block[i].attrs) : block[i].attrs[j].name \in names

\* the output shows exactly the flags of flag
OutputShows(flag) ==
  /\ highlightedHTML = Annotated(Processed, flag)
  /\ changesCount = FlagCount(Processed, flag)

\* C3 as claimed: a block is Protected exactly when it contains a table,
\* image, figure, iframe, embed or script element, a class containing widget,
\* w-embed, w-widget or w-richtext, or a data attribute data-w-id or
\* data-widget; every other block is Proseable.
ClaimedProtected(block) ==
  \/ HasTag(block, {"table", "img", "figure", "iframe", "embed", "script"})
  \/ HasClassFragments(block, <<"widget">>)
  \/ HasClassFragments(block, <<"w-", "embed">>)
  \/ HasClassFragments(block, <<"w-", "widget">>)
  \/ HasClassFragments(block, <<"w-", "richtext">>)
  \/ HasAttribute(block, {"data-w-id", "data-widget"})

\* then exactly the new, long blocks that are not Protected are wrapped
C3_Original ==
  Returned =>
    OutputShows([i \in 1..Len(Processed) |->
                   /\ IsNewText(Processed[i])
                   /\ IsLong(Processed[i])
                   /\ ~ClaimedProtected(Processed[i])])

\* C3 (amended): a block is Protected exactly when it contains a table,
\* image, figure, iframe, embed or script opening tag, a class containing widget
\* (so also w-widget and info-widget) or w-embed, or the attribute data-w-id;
\* a w-richtext class or a data-widget attribute does not protect a block.
AmendedProtected(block) ==
  \/ HasTag(block, {"table", "img", "figure", "iframe", "embed", "script"})
  \/ HasClassFragments(block, <<"widget">>)
  \/ HasClassFragments(block, <<"w-", "embed">>)
  \/ HasAttribute(block, {"data-w-id"})

C3_Classifier ==
  Returned =>
    OutputShows([i \in 1..Len(Processed) |->
                   /\ IsNewText(Processed[i])
                   /\ IsLong(Processed[i])
                   /\ ~AmendedProtected(Processed[i])])

\* a new block protected by data-w-id alone next to a new block with a
\* w-richtext class and a data-widget attribute, which is wrapped
C3_Witness ==
  /\ Returned
  /\ updatedBlocks = <<DataWIdC, RichTextDataWidgetC>>
  /\ originalBlocks = <<ParaA>>
  /\ changesCount = 1
  /\ highlightedHTML = Cat(DataWIdC, Wrapped(RichTextDataWidgetC))

\* C4: removing the wrappers from the returned html gives the candidate's
\* blocks, concatenated in order, byte for byte.
C4_RoundTripBytes ==
  (pc = "edited" /\ afterView = highlightedData.html) =>
    editedContent = Flatten(updatedBlocks)

\* C6: a document compared with itself has no changes and no wrapper.
C6_ZeroDiffOnIdentity ==
  (Returned /\ originalHTML = updatedHTML) =>
    /\ changesCount = 0
    /\ highlightedData = [html |-> Flatten(updatedBlocks), changesCount |-> 0]

\* a document with a short block and a long one, compared with itself
C6_Witness ==
  /\ Returned
  /\ originalHTML = updatedHTML
  /\ updatedBlocks = <<ParaShort, NestedDiv>>
  /\ highlightedData.changesCount = 0

BlockTexts(blocks) == [i \in 1..Len(blocks) |-> stripHTML(blocks[i])]

\* C7 as claimed: equal normalized full texts give no changes, however the
\* text is divided into blocks.
C7_Original ==
  (Returned /\ stripHTML(originalHTML) = stripHTML(updatedHTML)) => changesCount = 0

\* C7 (amended): when the candidate's blocks have, in order, the normalized
\* texts of the original's blocks, there are no changes and no wrapper,
\* whatever the attributes, tag case and whitespace.
C7_SameBlockTexts ==
  (Returned /\ BlockTexts(originalBlocks) = BlockTexts(updatedBlocks)) =>
    /\ changesCount = 0
    /\ highlightedHTML = Flatten(updatedBlocks)

\* the same paragraph under other markup
C7_Witness ==
  /\ Returned
  /\ originalHTML = ParaA
  /\ updatedHTML = Cat(Newline, ParaAMarkup)
  /\ updatedBlocks # originalBlocks
  /\ changesCount = 0

IsPermutationOf(a, b) ==
  /\ Len(a) = Len(b)
  /\ \E p \in Permutations(1..Len(a)) : \A i \in 1..Len(a) : a[i] = b[p[i]]

\* C8: a candidate whose blocks are a permutation of the original's has no
\* changes, and a block whose normalized text occurs anywhere in the original
\* is never wrapped.
C8_PositionIndependent ==
  Returned =>
    /\ IsPermutationOf(updatedBlocks, originalBlocks) =>
         (changesCount = 0 /\ highlightedHTML = Flatten(updatedBlocks))
    /\ ShownFlags # {}
    /\ \A flag \in ShownFlags :
         \A i \in 1..Len(Processed) : ~IsNewText(Processed[i]) => ~flag[i]

\* two long paragraphs swapped
C8_Witness ==
  /\ Returned
  /\ originalBlocks = <<ParaA, ParaB>>
  /\ updatedBlocks = <<ParaB, ParaA>>
  /\ changesCount = 0

\* C9 as claimed: with a non-empty original, every candidate block that is not
\* special and whose normalized text differs from every original block's is
\* wrapped whole.
C9_Original ==
  (Returned /\ originalBlocks # <<>>) =>
    \E flag \in ShownFlags :
      \A i \in 1..Len(Processed) :
        (IsNewText(Processed[i]) /\ ~isSpecialElement(Processed[i])) => flag[i]

\* C9 (amended): every candidate block that is not special, whose normalized
\* text differs from every original block's and is longer than 20 characters,
\* is wrapped, and the wrapper encloses the block's complete serialized HTML.
C9_ParaphraseFlagged ==
  Returned =>
    \E flag \in ShownFlags :
      \A i \in 1..Len(Processed) :
        (IsNewText(Processed[i]) /\ ~isSpecialElement(Processed[i]) /\ IsLong(Processed[i]))
          => flag[i]

\* a paragraph of the original with other text
C9_Witness ==
  /\ Returned
  /\ originalBlocks = <<ParaA>>
  /\ updatedBlocks = <<ParaB>>
  /\ changesCount = 1
  /\ highlightedHTML = Wrapped(ParaB)

(***************************************************************************)
(* Properties of the stripper                                              *)
(***************************************************************************)
\* C5: stripping is idempotent: when the view holds exactly the result of a
\* strip, a further strip leaves editedContent as it is.
C5_StripIdempotent ==
  [][(pc = "resynced" /\ afterView = editedContent) => editedContent' = editedContent]_vars

HasNoWrapper(html) == \A i \in 1..Len(html) : ~MatchesWrapperOpen(html[i])

\* C10: when the view is one wrapper around well-formed inner content X
\* without wrappers of its own, stripping leaves exactly X.
C10_InnerContentKept ==
  ( /\ pc = "edited"
    /\ Len(afterView) >= 2
    /\ MatchesWrapperOpen(afterView[1])
    /\ IsCloseDiv(afterView[Len(afterView)])
    /\ LET X == SubSeq(afterView, 2, Len(afterView) - 1)
       IN HasNoWrapper(X) /\ InnerHTML(X) = X )
  => editedContent = SubSeq(afterView, 2, Len(afterView) - 1)

\* the string character by character: a run of n becomes n runs of one
RECURSIVE Expand(_)
Expand(html) ==
  IF html = <<>> THEN <<>>
  ELSE IF html[1].k = "text" /\ html[1].n > 1
  THEN <<Text(html[1].c, 1)>> \o Expand(<<Text(html[1].c, html[1].n - 1)>> \o Tail(html))
  ELSE <<html[1]>> \o Expand(Tail(html))

\* html without wrapper markup: every wrapper opening tag and the </div> that
\* closes it are left out; open holds, for each open div, whether it is a
\* wrapper
RECURSIVE WithoutWrapperMarkup(_, _)
WithoutWrapperMarkup(html, open) ==
  IF html = <<>> THEN <<>>
  ELSE
    LET t == html[1]
        rest == Tail(html)
    IN
    IF t.k = "open" /\ t.tag = "div"
    THEN IF MatchesWrapperOpen(t)
         THEN WithoutWrapperMarkup(rest, Append(open, TRUE))
         ELSE <<t>> \o WithoutWrapperMarkup(rest, Append(open, FALSE))
    ELSE IF IsCloseDiv(t) /\ open # <<>>
    THEN IF open[Len(open)]
         THEN WithoutWrapperMarkup(rest, SubSeq(open, 1, Len(open) - 1))
         ELSE <<t>> \o WithoutWrapperMarkup(rest, SubSeq(open, 1, Len(open) - 1))
    ELSE <<t>> \o WithoutWrapperMarkup(rest, open)

\* a is b with some elements left out
RECURSIVE IsSubsequence(_, _)
IsSubsequence(a, b) ==
  IF a = <<>> THEN TRUE
  ELSE IF b = <<>> THEN FALSE
  ELSE IF a[1] = b[1] THEN IsSubsequence(Tail(a), Tail(b))
  ELSE IsSubsequence(a, Tail(b))

\* C11: the stripper removes only wrapper markup: every text character and
\* every tag of the view that is not a wrapper's opening or closing tag is in
\* editedContent, in the order of the view.
C11_OnlyWrapperMarkupRemoved ==
  pc = "edited" =>
    IsSubsequence(Expand(WithoutWrapperMarkup(afterView, <<>>)), Expand(editedContent))

\* the normalized texts of the blocks, one after the other
ConcatenatedText(blocks) == Flatten(BlockTexts(blocks))

\* C12: the document obtained by stripping the returned html has the same
\* concatenated normalized block text, in the same block order, as the
\* candidate.
C12_RoundTripText ==
  (pc = "edited" /\ afterView = highlightedData.html) =>
    ConcatenatedText(splitIntoBlocks(editedContent)) = ConcatenatedText(updatedBlocks)

(***************************************************************************)
(* Properties of the annotated output                                      *)
(***************************************************************************)
\* C13: the returned html is the concatenation, in candidate order, of one
\* piece per candidate block: a flagged block inside exactly one wrapper (a
\* div with a style attribute and nothing else), any other block as it is; no
\* block is dropped, duplicated, reordered or altered.
C13_OnePiecePerBlock ==
  Returned =>
    \E flag \in [1..Len(updatedBlocks) -> BOOLEAN] :
      LET piece == [i \in 1..Len(updatedBlocks) |->
                      IF flag[i]
                      THEN <<Open("div", <<Attr("style", WrapperOpen.attrs[1].val)>>)>>
                             \o updatedBlocks[i] \o <<Close("div")>>
                      ELSE updatedBlocks[i]]
      IN highlightedData.html = Flatten(piece)

\* a flagged paragraph followed by a short one
C13_Witness ==
  /\ Returned
  /\ originalBlocks = <<>>
  /\ updatedBlocks = <<ParaB, ParaShort>>
  /\ highlightedData.html = Cat(Wrapped(ParaB), ParaShort)

\* the wrapper containers of html
WrapperCount(html) == Cardinality({i \in 1..Len(html) : html[i] = Wrapped(<<>>)[1]})

\* C14 as claimed: changesCount is the number of flagged blocks and the
\* number of wrapper containers in the returned html, between 0 and the
\* number of candidate blocks.
C14_Original ==
  Returned =>
    /\ highlightedData.changesCount \in 0..Len(updatedBlocks)
    /\ \E flag \in ShownFlags : highlightedData.changesCount = FlagCount(updatedBlocks, flag)
    /\ highlightedData.changesCount = WrapperCount(highlightedData.html)

\* C14 (amended): changesCount is the number of flagged blocks, between 0 and
\* the number of candidate blocks; the returned html has that many wrapper
\* containers more than the candidate's blocks have themselves.
C14_CountsFlagged ==
  Returned =>
    /\ highlightedData.changesCount \in 0..Len(updatedBlocks)
    /\ \E flag \in ShownFlags : highlightedData.changesCount = FlagCount(updatedBlocks, flag)
    /\ WrapperCount(highlightedData.html) =
         highlightedData.changesCount + WrapperCount(Flatten(updatedBlocks))

\* a candidate block that is a wrapper container already, then a new paragraph
C14_Witness ==
  /\ Returned
  /\ originalBlocks = <<>>
  /\ updatedBlocks = <<HighlightedShort, ParaB>>
  /\ highlightedData.changesCount = 1
  /\ WrapperCount(highlightedData.html) = 2

\* C15: a block whose normalized text has 20 characters or fewer is never
\* flagged; a block that is not special, has 21 characters or more and a text
\* absent from the original is always flagged; equal blocks get equal
\* decisions.
C15_ThresholdBoundary ==
  Returned =>
    /\ ShownFlags # {}
    /\ \A flag \in ShownFlags :
         \A i \in 1..Len(updatedBlocks) :
           LET len == StrLen(stripHTML(updatedBlocks[i])) IN
           /\ len <= HighlightThreshold => ~flag[i]
           /\ ( /\ len >= HighlightThreshold + 1
                /\ ~isSpecialElement(updatedBlocks[i])
                /\ IsNewText(updatedBlocks[i]) ) => flag[i]
           /\ \A j \in 1..Len(updatedBlocks) :
                updatedBlocks[j] = updatedBlocks[i] => flag[j] = flag[i]

\* new paragraphs of 20 and of 21 characters
C15_Witness ==
  /\ Returned
  /\ originalBlocks = <<ParaB>>
  /\ updatedBlocks = <<ParaAtThreshold, ParaA>>
  /\ StrLen(stripHTML(ParaAtThreshold)) = HighlightThreshold
  /\ StrLen(stripHTML(ParaA)) = HighlightThreshold + 1
  /\ highlightedData = [html |-> Cat(ParaAtThreshold, Wrapped(ParaA)), changesCount |-> 1]

RECURSIVE ChildrenByDepth(_, _, _, _)
ChildrenByDepth(html, depth, cur, out) ==
  IF html = <<>> THEN (IF cur = <<>> THEN out ELSE Append(out, DecodeEntities(cur)))
  ELSE
    LET t == html[1]
        rest == Tail(html)
        lower == IF t.k = "text" THEN t
                 ELSE [t EXCEPT !.tag = IF @ = "P" THEN "p" ELSE IF @ = "DIV" THEN "div" ELSE @]
    IN
    IF t.k = "text" THEN ChildrenByDepth(rest, depth, Cat(cur, <<t>>), out)
    ELSE IF t.k = "open"
    THEN IF depth = 0
         THEN ChildrenByDepth(rest, 1, <<lower>>,
                              IF cur = <<>> THEN out ELSE Append(out, DecodeEntities(cur)))
         ELSE ChildrenByDepth(rest, depth + 1, cur \o <<lower>>, out)
    ELSE IF depth = 1
         THEN ChildrenByDepth(rest, 0, <<>>, Append(out, cur \o <<lower>>))
         ELSE ChildrenByDepth(rest, depth - 1, cur \o <<lower>>, out)

IsWhitespaceText(node) ==
  \A i \in 1..Len(node) : node[i].k = "text" /\ node[i].c \in {" ", "\n"}

\* one block per child, except the text children that are empty or whitespace
ExpectedBlocks(html) ==
  SelectSeq(ChildrenByDepth(html, 0, <<>>, <<>>), LAMBDA node : ~IsWhitespaceText(node))

\* C20: splitIntoBlocks yields, in document order, one block per direct child
\* of the fragment root and never divides a child: an element child gives its
\* whole outer markup, a text child with a non-whitespace character gives its
\* text, an empty or whitespace-only text child gives no block.
C20_OneBlockPerChild ==
  Returned =>
    /\ updatedBlocks = ExpectedBlocks(updatedHTML)
    /\ originalBlocks = ExpectedBlocks(originalHTML)

\* a text child, then an element child that holds an element
C20_Witness ==
  /\ Returned
  /\ updatedHTML = Cat(TextC, HighlightedShort)
  /\ originalHTML = Newline
  /\ updatedBlocks = <<TextC, HighlightedShort>>
  /\ originalBlocks = <<>>

\* the serialized content of a fragment without the whitespace-only text
\* between its children: an element child as its outer markup, a text child
\* as its data with &, < and > escaped
SerializedChildren(html) ==
  LET children == ExpectedBlocks(html)
  IN Flatten([i \in 1..Len(children) |->
                IF IsTextNode(children[i]) THEN EncodeText(children[i]) ELSE children[i]])

\* C21: the blocks of a fragment, concatenated in order, are the fragment's
\* serialized content except for whitespace-only text between blocks; a
\* top-level text block is the markup of its text, escaped characters stay
\* escaped.
C21_Reassembly ==
  Returned =>
    /\ Flatten(updatedBlocks) = SerializedChildren(updatedHTML)
    /\ Flatten(originalBlocks) = SerializedChildren(originalHTML)

\* C22: createHighlightedHTML raises for no pair of strings, and a candidate
\* that the parser gives no container for is segmented as one block holding
\* the whole candidate.
C22_NeverRaises ==
  /\ pc # "raised"
  /\ (Returned /\ HasNoContainer(updatedHTML)) => updatedBlocks = <<updatedHTML>>

(***************************************************************************)
(* Properties of the host                                                  *)
(***************************************************************************)
\* the rewritten content fails validation: no tag where the original has one,
\* fewer <img>, <table>, <iframe>, <embed>, <script> or widget classes than
\* the original, or less than 70% of the original's length
FailsValidation(rewritten, original) ==
  \/ ~HasHTMLTags(rewritten) /\ HasHTMLTags(original)
  \/ \E tag \in {"img", "table", "iframe", "embed", "script"} :
       TagCount(rewritten, tag) < TagCount(original, tag)
  \/ WidgetCount(rewritten) < WidgetCount(original)
  \/ CharCount(rewritten) * 10 < CharCount(original) * 7

\* C17: when the rewritten content of the response fails validation, the
\* candidate given to createHighlightedHTML, result.content and editedContent
\* are the original content.
C17_FallsBackToOriginal ==
  (pc = "mounting" /\ FailsValidation(response, postBody)) =>
    /\ editedContent = postBody
    /\ result = <<[content |-> postBody, originalContent |-> postBody]>>
    /\ highlightedData = createHighlightedHTML(postBody, postBody)

\* C18: while a result exists, once the highlight effect has run for the
\* current editedContent, highlightedData is
\* createHighlightedHTML(result.originalContent, editedContent), also when
\* editedContent is the empty string.
C18_HighlightsFollowContent ==
  (result # <<>> /\ pendingEffects = {} /\ pc = "review") =>
    highlightedData = createHighlightedHTML(result[1].originalContent, editedContent)

\* C19: while the write of the annotation that matches editedContent has not
\* been made, a blur event does not read older content from the view: it
\* leaves editedContent as it is.
C19_NoStaleRead ==
  [][(BlurAfterView /\ pendingEffects = {"resync"}) => editedContent' = editedContent]_vars

(***************************************************************************)
(* Properties of the stored content                                        *)
(***************************************************************************)
\* the post-bodies of the PATCH requests awaiting their response
BodiesInFlight ==
  {requests[i].postBody : i \in {j \in 1..Len(requests) : requests[j].op = "publishToWebflow"}}

C24_ToggleKeepsContent ==
  [][(ToggleHighlights \/ RunEffects \/ BlurAfterView) => editedContent' = editedContent]_vars

(***************************************************************************)
(* Properties of the session                                               *)
(***************************************************************************)
\* the requests of an operation awaiting their response
InFlight(op) == {requests[i] : i \in {j \in 1..Len(requests) : requests[j].op = op}}

\* result holds the analysis of the selected item
ResultOfSelected ==
  /\ result # <<>>
  /\ selectedBlog # <<>>
  /\ result[1].originalContent = selectedBlog[1].postBody

\* C25: whenever the review view is shown, result is not null and
\* result.originalContent is the post-body of selectedBlog; every PATCH
\* awaiting its response is for the item whose analysis result holds.
C25_ReviewOfSelected ==
  /\ view = "review" => ResultOfSelected
  /\ \A r \in InFlight("publishToWebflow") :
       ResultOfSelected /\ r.itemId = selectedBlog[1].id

\* the second item is under review and being published
C25_Witness ==
  /\ view = "review"
  /\ selectedBlog = <<Collection[2]>>
  /\ result # <<>> /\ result[1].originalContent = Collection[2].postBody
  /\ requests = <<[op |-> "publishToWebflow", itemId |-> 2, postBody |-> editedContent]>>

\* C26: at most one request awaits its response, and loading is true exactly
\* while one does.
C26_OneRequestAtATime ==
  /\ Len(requests) <= 1
  /\ loading <=> requests # <<>>

\* an analysis is awaited while the user has gone to the setup view, whose
\* button starts fetchBlogs
C26_Witness ==
  /\ loading
  /\ view = "setup"
  /\ \A f \in ConfigFields : config[f] # ""
  /\ Len(requests) = 1 /\ requests[1].op = "analyzeBlog"

\* C27: while loading is true a request awaits its response, and the step
\* that handles the response or the rejection of a request, whatever the
\* outcome, ends with loading false: once every fetch is answered, loading is
\* false again.
C27_LoadingEnds ==
  /\ [](loading => requests # <<>>)
  /\ [][Len(requests') < Len(requests) => ~loading']_vars

\* a publish was refused and the review view is ready for another attempt
C27_Witness ==
  /\ view = "review"
  /\ status = "error"
  /\ ~loading
  /\ requests = <<>>
  /\ pc = "review"

\* C28: the step that handles a failed analysis leaves result, editedContent,
\* highlightedData and view as they are and sets an error status; the step
\* that handles a failed publish leaves view, editedContent and result as
\* they are, and in the review view the same content can be published again.
C28_FailureKeepsReview ==
  [][ /\ AnalyzeBlogFailed =>
           /\ UNCHANGED <<result, editedContent, highlightedData, view>>
           /\ status' = "error"
      /\ PublishFailed =>
           /\ UNCHANGED <<view, editedContent, result>>
           /\ view = "review" => (~loading' /\ result' # <<>> /\ selectedBlog' # <<>>) ]_vars

\* the analysis of the second item failed while result holds the analysis of
\* the first
C28_Witness ==
  /\ status = "error"
  /\ ~loading
  /\ requests = <<>>
  /\ selectedBlog = <<Collection[2]>>
  /\ result # <<>> /\ result[1].originalContent = Collection[1].postBody
  /\ editedContent # <<>>
  /\ highlightedData # Null
  /\ view = "dashboard"

(***************************************************************************)
(* Properties of the validation                                            *)
(***************************************************************************)
\* the content analyzeBlog received, after line 601
Received == FixBold(IF response = <<>> THEN postBody ELSE response)

\* one of the three checks of analyzeBlog fired: the plain-text test of line
\* 605, the element counts of line 658, the length test of line 667
Substituted ==
  LET afterPlain == IF ~HasHTMLTags(Received) /\ HasHTMLTags(postBody)
                    THEN postBody ELSE Received
  IN \/ ~HasHTMLTags(Received) /\ HasHTMLTags(postBody)
     \/ ElementsLost(afterPlain, postBody)
     \/ IsTruncated(CharCount(afterPlain), CharCount(postBody))

\* C29: when the review view opens after analyzeBlog put the original in the
\* place of the rewritten content, for whichever reason, the status has type
\* 'error'; it has type 'success' only when the rewritten content was kept.
C29_StatusTellsSubstitution ==
  pc = "mounting" =>
    /\ Substituted => status = "error"
    /\ status = "success" => ~Substituted

(***************************************************************************)
(* Properties of the setup                                                 *)
(***************************************************************************)
AllFilled(c) == \A f \in ConfigFields : c[f] # ""

\* C30: saveConfig with an empty field sets an error status and changes
\* nothing else: localStorage, savedConfig, the requests, loading and view
\* stay as they are; a saved configuration has its four fields filled.
C30_SaveConfigRejects ==
  /\ [][(saveConfig /\ ~AllFilled(config)) =>
          /\ status' = "error"
          /\ UNCHANGED <<localStorage, savedConfig, requests, loading, view>>
          /\ UNCHANGED <<engineVars, contentVars, pc, postBody, response, selectedBlog, blogs,
                         config, result, showHighlights, viewMode, pendingEffects>>]_vars
  /\ [](savedConfig # <<>> => AllFilled(savedConfig[1]))
  /\ [](localStorage # <<>> => AllFilled(localStorage[1]))

\* a form with three of the four fields filled was refused
C30_Witness ==
  /\ view = "setup"
  /\ status = "error"
  /\ savedConfig = <<>>
  /\ localStorage = <<>>
  /\ config = [FullConfig EXCEPT !["collectionId"] = ""]
  /\ requests = <<>>
  /\ ~loading

====
